---- MODULE Spec2Model ----
(***************************************************************************)
(* Model of the model/metric registries (lib_models.py, lib_metrics.py)    *)
(* and of the analysis driver (script_5_analyze_songs.py).                 *)
(*                                                                         *)
(* One Python process, single-threaded.  A call of get_model / get_metric  *)
(* is one atomic step: its whole body, the constructors it runs and the    *)
(* download they trigger.  What the external libraries do (the hub, the    *)
(* pipeline loader) is chosen by an outcome drawn per call.                *)
(***************************************************************************)
EXTENDS Integers, Sequences, FiniteSets, TLC

VARIABLES
    loaded_models,   \* globals()["loaded_models"] of lib_models: identifier -> instance
    loaded_metrics,  \* globals()["loaded_metrics"] of lib_metrics: identifier -> instance
    allocated,       \* how many instances the process has constructed; the next one is
                     \* object allocated + 1 (an instance is its identity and its attributes)
    paths,           \* the model ids whose {models_directory}/{model_id} exists
    hf_key,          \* the credential file: "present", "missing" or "unreadable"
    log,             \* the side effects of the last call, in program order
    last,            \* the last registry call: arguments, result, exception
    first_model,     \* history: identifier -> instance of its first successful memoized get_model
    first_metric,    \* history: identifier -> instance of its first successful memoized get_metric
    listing,         \* os.listdir({datasets_path}/audio), in the order the OS gives it
    cfg_metrics,     \* script_args().metrics
    metrics_pt,      \* {output_directory}/data/metrics.pt: the pickled score table
    drv,             \* the driver: where it is, what it has computed, how it failed
    figures,         \* the figure files written, each with the rows it was drawn from
    written,         \* the driver's filesystem writes, in order
    heard            \* what each transcribe call so far handed to its underlying model

regvars == <<loaded_models, loaded_metrics, allocated, paths, hf_key, log, last,
             first_model, first_metric>>

drvvars == <<listing, cfg_metrics, metrics_pt, drv, figures, written>>

asrvars == <<heard>>

----------------------------------------------------------------------------
(* Bounds *)

\* instances one process constructs before the model stops constructing
MaxInstances == 3

\* transcribe calls one process makes before the model stops transcribing
MaxTranscriptions == 2

----------------------------------------------------------------------------
(* Identifiers: a bare name, or a tuple (name, *constructor-args) *)

Name(n) == [tup |-> FALSE, name |-> n, args |-> <<>>]

Tuple(n, a) == [tup |-> TRUE, name |-> n, args |-> a]

\* the identifiers get_model is called with
ModelIds ==
    { Name("Whisper_Large_V3"), Name("All_MiniLM_L6_V2"),
      Name("ASRModel"), Name("Phi_4_Multimodal_Instruct"),
      Tuple("Demucs", <<"mdx_extra">>), Tuple("Whisper_Large_V3", <<>>) }

\* the identifiers get_metric is called with
MetricIds ==
    { Name("WER"), Name("BLEU"), Name("EmbeddingSimilarity"),
      Tuple("EmbeddingSimilarity", <<"All_MiniLM_L6_V2">>),
      Name("All_MiniLM_L6_V2") }

\* what the external calls of one registry call do
Outcomes == {"ok", "login_fail", "network_fail", "storage_fail", "setup_fail"}

\* an instance: its identity (oid), its class, and the attributes its
\* constructor set (best, and the oid of the model an EmbeddingSimilarity holds)
Object(oid, cls, best, model) == [oid |-> oid, cls |-> cls, best |-> best, model |-> model]

NoInstance == Object(0, "none", "none", 0)

NoError == "none"

----------------------------------------------------------------------------
(* The module namespaces that getattr(sys.modules[__name__], name) reads *)

\* the concrete model classes of lib_models and their fixed model_id
ModelClasses == {"Whisper_Large_V3", "All_MiniLM_L6_V2"}

ModelIdOf(cls) ==
    CASE cls = "Whisper_Large_V3" -> "openai/whisper-large-v3"
      [] cls = "All_MiniLM_L6_V2" -> "sentence-transformers/all-MiniLM-L6-v2"

AllModelPaths == {ModelIdOf(c) : c \in ModelClasses}

\* classes of lib_models with an abstract method left: calling them raises TypeError
AbstractClasses == {"ASRModel"}

\* mutant: getattr(module, name, None), so a missing name yields None and
\* calling it raises TypeError
LibModelsAttrDefaulted(name) ==
    IF name \in ModelClasses THEN "model" ELSE "abstract"

\* getattr on lib_models: "model" (a concrete class), "abstract", or "missing"
LibModelsAttr(name) ==
    IF name \in ModelClasses THEN "model"
    ELSE IF name \in AbstractClasses THEN "abstract"
    ELSE "missing"

\* getattr on lib_metrics, which holds its own classes and, by
\* "from lib_models import *", every public name of lib_models
LibMetricsAttr(name) ==
    IF name \in {"WER", "EmbeddingSimilarity"} THEN name
    ELSE LibModelsAttr(name)

\* mutant: the two metric classes pass each other's reducer
BestOfSwapped(cls) ==
    CASE cls = "WER" -> "max"
      [] cls = "EmbeddingSimilarity" -> "min"
      [] OTHER -> "none"

\* the best reducer TextMetrics.__init__ is given by each metric class
BestOf(cls) ==
    CASE cls = "WER" -> "min"
      [] cls = "EmbeddingSimilarity" -> "max"
      [] OTHER -> "none"

----------------------------------------------------------------------------
(* Helpers on dictionaries and on the result of a call *)

Put(d, k, v) == [x \in DOMAIN d \cup {k} |-> IF x = k THEN v ELSE d[x]]

Get(d, k) == IF k \in DOMAIN d THEN d[k] ELSE NoInstance

EmptyDict == [x \in {} |-> NoInstance]

Ev(e, a) == [ev |-> e, arg |-> a]

\* the world a call runs in and changes
World == [lm |-> loaded_models, lmet |-> loaded_metrics, allocated |-> allocated,
          paths |-> paths, log |-> <<>>]

Raise(w, e) == [w |-> w, ret |-> NoInstance, err |-> e]

Return(w, i) == [w |-> w, ret |-> i, err |-> NoError]

Logged(w, evs) == [w EXCEPT !.log = w.log \o evs]

----------------------------------------------------------------------------
(* lib_models.py *)

\* mutant: the os.path.exists test is dropped, every instantiation downloads
DownloadModelAlways(w, key, mid, outcome) ==
    IF key # "present" THEN
        Raise(Logged(w, <<Ev("open", mid)>>),
              IF key = "missing" THEN "FileNotFoundError" ELSE "PermissionError")
    ELSE IF outcome \in {"login_fail", "network_fail", "storage_fail"} THEN
        Raise(Logged(w, <<Ev("open", mid), Ev("login", mid)>>), "HfHubHTTPError")
    ELSE
        Raise(Logged([w EXCEPT !.paths = @ \cup {mid}],
                     <<Ev("open", mid), Ev("login", mid),
                       Ev("snapshot_download", mid), Ev("chmod", mid)>>), NoError)

\* mutant: a token that cannot be read is replaced by an anonymous login
DownloadModelAnonymous(w, key, mid, outcome) ==
    IF mid \in w.paths THEN Raise(w, NoError)
    ELSE IF outcome \in {"login_fail", "network_fail", "storage_fail"} THEN
        Raise(Logged(w, <<Ev("open", mid), Ev("login", mid),
                          Ev("snapshot_download", mid)>>), "ConnectionError")
    ELSE
        Raise(Logged([w EXCEPT !.paths = @ \cup {mid}],
                     <<Ev("open", mid), Ev("login", mid),
                       Ev("snapshot_download", mid), Ev("chmod", mid)>>), NoError)

\* mutant: a failed snapshot download is tried a second time
DownloadModelRetry(w, key, mid, outcome) ==
    IF mid \in w.paths THEN Raise(w, NoError)
    ELSE IF key # "present" THEN
        Raise(Logged(w, <<Ev("open", mid)>>),
              IF key = "missing" THEN "FileNotFoundError" ELSE "PermissionError")
    ELSE IF outcome = "login_fail" THEN
        Raise(Logged(w, <<Ev("open", mid), Ev("login", mid)>>), "HfHubHTTPError")
    ELSE IF outcome \in {"network_fail", "storage_fail"} THEN
        Raise(Logged(w, <<Ev("open", mid), Ev("login", mid),
                          Ev("snapshot_download", mid),
                          Ev("snapshot_download", mid)>>), "ConnectionError")
    ELSE
        Raise(Logged([w EXCEPT !.paths = @ \cup {mid}],
                     <<Ev("open", mid), Ev("login", mid),
                       Ev("snapshot_download", mid), Ev("chmod", mid)>>), NoError)

\* mutant: the token is read and the login made before the path is tested
DownloadModelLoginFirst(w, key, mid, outcome) ==
    IF key # "present" THEN
        Raise(Logged(w, <<Ev("open", mid)>>),
              IF key = "missing" THEN "FileNotFoundError" ELSE "PermissionError")
    ELSE IF mid \in w.paths THEN
        Raise(Logged(w, <<Ev("open", mid), Ev("login", mid)>>), NoError)
    ELSE DownloadModelAlways(w, key, mid, outcome)

\* BaseModel._download_model: nothing when the path exists; else read the
\* token, log in, download the snapshot, chmod the path
DownloadModel(w, key, mid, outcome) ==
    IF mid \in w.paths THEN Raise(w, NoError)
    ELSE IF key # "present" THEN
        Raise(Logged(w, <<Ev("open", mid)>>),
              IF key = "missing" THEN "FileNotFoundError" ELSE "PermissionError")
    ELSE IF outcome = "login_fail" THEN
        Raise(Logged(w, <<Ev("open", mid), Ev("login", mid)>>), "HfHubHTTPError")
    ELSE IF outcome = "network_fail" THEN
        Raise(Logged(w, <<Ev("open", mid), Ev("login", mid),
                          Ev("snapshot_download", mid)>>), "ConnectionError")
    ELSE IF outcome = "storage_fail" THEN
        \* the snapshot directory was created and partly filled
        Raise(Logged([w EXCEPT !.paths = @ \cup {mid}],
                     <<Ev("open", mid), Ev("login", mid),
                       Ev("snapshot_download", mid)>>), "OSError")
    ELSE
        Raise(Logged([w EXCEPT !.paths = @ \cup {mid}],
                     <<Ev("open", mid), Ev("login", mid),
                       Ev("snapshot_download", mid), Ev("chmod", mid)>>), NoError)

\* the instance a constructor leaves behind: a new identity with its attributes
NewObject(w, cls, best, model) ==
    Return([w EXCEPT !.allocated = @ + 1], Object(w.allocated + 1, cls, best, model))

\* the rest of a model's constructor once BaseModel.__init__ has returned d:
\* the subclass's own loading (pipeline(...)), which may raise
SetupModel(d, cls, outcome) ==
    IF d.err # NoError THEN d
    ELSE IF outcome = "setup_fail"
         THEN Raise(Logged(d.w, <<Ev("setup", cls)>>), "RuntimeError")
         ELSE NewObject(Logged(d.w, <<Ev("setup", cls)>>), cls, "none", 0)

\* model_class(): BaseModel.__init__ (model_id, download) and then the setup
ConstructModel(w, key, cls, outcome) ==
    SetupModel(DownloadModel(Logged(w, <<Ev("init", cls)>>), key, ModelIdOf(cls), outcome),
               cls, outcome)

\* mutant: the cache is never consulted
ModelCacheNeverHit(w, id, memoize) == FALSE

\* the memoization test of get_model
ModelCacheHit(w, id, memoize) == memoize /\ id \in DOMAIN w.lm

\* mutant: the cache entry is written whether or not the constructor raised
\* (the instance is stored before it is complete)
MemoizeModelEagerly(c, id, memoize) ==
    IF memoize THEN [c EXCEPT !.w.lm = Put(@, id, c.ret)] ELSE c

\* lines 38-41 of get_model: memoize the constructed model c and return it
MemoizeModel(c, id, memoize) ==
    IF c.err # NoError THEN c
    ELSE IF memoize THEN Return([c.w EXCEPT !.lm = Put(@, id, c.ret)], c.ret)
    ELSE c

\* get_model(model_class_name, memoize)
GetModel(w, key, id, memoize, outcome) ==
    IF ModelCacheHit(w, id, memoize) THEN Return(w, w.lm[id])
    ELSE IF id.tup THEN Raise(w, "TypeError")   \* getattr: attribute name must be string
    ELSE IF LibModelsAttr(id.name) = "missing" THEN Raise(w, "AttributeError")
    ELSE IF LibModelsAttr(id.name) = "abstract" THEN Raise(w, "TypeError")
    ELSE MemoizeModel(ConstructModel(w, key, id.name, outcome), id, memoize)

----------------------------------------------------------------------------
(* lib_metrics.py *)

\* mutant: the cache is consulted whatever the memoize flag
MetricCacheHitAlways(w, id, memoize) == id \in DOMAIN w.lmet

\* the memoization test of get_metric, on the identifier as passed
MetricCacheHit(w, id, memoize) == memoize /\ id \in DOMAIN w.lmet

\* the key get_metric stores under: metric_class_name, which the tuple
\* unpacking has by then rebound to the bare class name
MetricStoreKey(id) == Name(id.name)

\* WER(*extra_args): TextMetrics.__init__(best=min), then evaluate.load("wer")
ConstructWER(w, extra, outcome) ==
    IF extra # <<>> THEN Raise(w, "TypeError")
    ELSE IF outcome = "setup_fail" THEN
        Raise(Logged(w, <<Ev("init", "WER")>>), "RuntimeError")
    ELSE NewObject(Logged(w, <<Ev("init", "WER")>>), "WER", BestOf("WER"), 0)

\* the rest of EmbeddingSimilarity.__init__ once get_model has returned m:
\* self.model = m
HoldModel(m) ==
    IF m.err # NoError THEN m
    ELSE NewObject(m.w, "EmbeddingSimilarity", BestOf("EmbeddingSimilarity"), m.ret.oid)

\* mutant: the metric builds a model of its own, get_model(model_name, False)
ConstructEmbeddingSimilarityUnshared(w, key, extra, outcome) ==
    IF Len(extra) # 1 THEN Raise(w, "TypeError")
    ELSE HoldModel(GetModel(Logged(w, <<Ev("init", "EmbeddingSimilarity")>>), key,
                            Name(extra[1]), FALSE, outcome))

\* EmbeddingSimilarity(*extra_args): TextMetrics.__init__(best=max), then
\* self.model = get_model(model_name)
ConstructEmbeddingSimilarity(w, key, extra, outcome) ==
    IF Len(extra) # 1 THEN Raise(w, "TypeError")
    ELSE HoldModel(GetModel(Logged(w, <<Ev("init", "EmbeddingSimilarity")>>), key,
                            Name(extra[1]), TRUE, outcome))

\* metric_class(*extra_args) for whatever getattr found under the name
ConstructMetric(w, key, name, extra, outcome) ==
    IF LibMetricsAttr(name) = "missing" THEN Raise(w, "AttributeError")
    ELSE IF LibMetricsAttr(name) = "abstract" THEN Raise(w, "TypeError")
    ELSE IF LibMetricsAttr(name) = "WER" THEN ConstructWER(w, extra, outcome)
    ELSE IF LibMetricsAttr(name) = "EmbeddingSimilarity"
         THEN ConstructEmbeddingSimilarity(w, key, extra, outcome)
    ELSE IF extra # <<>> THEN Raise(w, "TypeError")
    ELSE ConstructModel(w, key, name, outcome)   \* a model class, star-imported

\* lines 38-41 of get_metric: memoize the constructed metric c and return it
MemoizeMetric(c, id, memoize) ==
    IF c.err # NoError THEN c
    ELSE IF memoize THEN Return([c.w EXCEPT !.lmet = Put(@, MetricStoreKey(id), c.ret)], c.ret)
    ELSE c

\* get_metric(metric_class_name, memoize)
GetMetric(w, key, id, memoize, outcome) ==
    IF MetricCacheHit(w, id, memoize) THEN Return(w, w.lmet[id])
    ELSE MemoizeMetric(ConstructMetric(w, key, id.name, id.args, outcome), id, memoize)

\* no score: what a call that computes nothing leaves as its value
NoScore == [num |-> 0, den |-> 0]

\* a text is a sequence of words; the texts compute is called on
Texts == {<<>>, <<"a">>, <<"b">>, <<"a", "b">>}

Min3(x, y, z) == IF x <= y /\ x <= z THEN x ELSE IF y <= z THEN y ELSE z

\* the word-level edit distance: the fewest substitutions, deletions and
\* insertions that turn the reference into the prediction
RECURSIVE EditDistance(_, _)
EditDistance(reference, prediction) ==
    IF reference = <<>> THEN Len(prediction)
    ELSE IF prediction = <<>> THEN Len(reference)
    ELSE IF Head(reference) = Head(prediction)
         THEN EditDistance(Tail(reference), Tail(prediction))
    ELSE 1 + Min3(EditDistance(Tail(reference), Tail(prediction)),
                  EditDistance(Tail(reference), prediction),
                  EditDistance(reference, Tail(prediction)))

\* what the word-error computation raises for a reference without words: the
\* alignment library rejects it, or the division by the zero reference words fails
EmptyReferenceErrors == {"ValueError", "ZeroDivisionError"}

\* the "wer" module of evaluate, compute(predictions=[p], references=[r]):
\* the word errors over the number of reference words; a reference without
\* words has no error rate and the library raises
WerModuleCompute(prediction, reference, raised) ==
    IF reference = <<>> THEN [err |-> raised, val |-> NoScore]
    ELSE [err |-> NoError,
          val |-> [num |-> EditDistance(reference, prediction), den |-> Len(reference)]]

\* what a compute call leaves: the instance, the score or the exception, and
\* the calls made on the backing resource
Computed(self, r, evs) == [self |-> self, err |-> r.err, val |-> r.val, log |-> evs]

\* mutant: the two texts are handed over in the other roles
WERComputeSwapped(self, text_1, text_2, raised) ==
    Computed(self, WerModuleCompute(text_1, text_2, raised), <<Ev("wer.compute", "WER")>>)

\* WER.compute(text_1, text_2)
WERCompute(self, text_1, text_2, raised) ==
    Computed(self, WerModuleCompute(text_2, text_1, raised), <<Ev("wer.compute", "WER")>>)

\* the cosine similarities (in tenths) the embeddings of two texts can have
Similarities == {0, 5, 10}

\* the class of the model instance a metric holds
ModelClassOf(w, oid) ==
    IF \E k \in DOMAIN w.lm : w.lm[k].oid = oid
    THEN w.lm[CHOOSE k \in DOMAIN w.lm : w.lm[k].oid = oid].cls
    ELSE "none"

\* mutant: compute loads its model on every call and keeps the new one
EmbeddingSimilarityComputeReloading(w, self, text_1, text_2, sim) ==
    Computed([self EXCEPT !.model = 0],
             [err |-> NoError, val |-> [num |-> sim, den |-> 10]],
             <<Ev("init", ModelClassOf(w, self.model)),
               Ev("embed", ModelClassOf(w, self.model)),
               Ev("embed", ModelClassOf(w, self.model))>>)

\* EmbeddingSimilarity.compute(text_1, text_2): two embed calls on self.model,
\* then the cosine of the two embeddings
EmbeddingSimilarityCompute(w, self, text_1, text_2, sim) ==
    Computed(self, [err |-> NoError, val |-> [num |-> sim, den |-> 10]],
             <<Ev("embed", ModelClassOf(w, self.model)),
               Ev("embed", ModelClassOf(w, self.model))>>)

\* metric.compute(text_1, text_2), dispatched on the class of the instance
MetricCompute(w, self, text_1, text_2, sim, raised) ==
    IF self.cls = "WER" THEN WERCompute(self, text_1, text_2, raised)
    ELSE EmbeddingSimilarityCompute(w, self, text_1, text_2, sim)

----------------------------------------------------------------------------
(* The process: any caller's sequence of registry calls, and the           *)
(* filesystem changing under it between calls                              *)

NotRunning == [pc |-> "off", datasets |-> <<>>, di |-> 0, mi |-> 0,
               cur |-> [dataset |-> "", metric |-> Name("none")],
               resolved |-> FALSE, data |-> <<>>, err |-> NoError]

Idle == [op |-> "none", id |-> Name("none"), memoize |-> FALSE,
         ret |-> NoInstance, err |-> NoError,
         self |-> NoInstance, texts |-> <<>>, val |-> NoScore]

\* the state after a call that returned r
Apply(op, id, memoize, r) ==
    /\ r.w.allocated <= MaxInstances
    /\ loaded_models' = r.w.lm
    /\ loaded_metrics' = r.w.lmet
    /\ allocated' = r.w.allocated
    /\ paths' = r.w.paths
    /\ log' = r.w.log
    /\ last' = [op |-> op, id |-> id, memoize |-> memoize, ret |-> r.ret, err |-> r.err,
                self |-> NoInstance, texts |-> <<>>, val |-> NoScore]
    /\ first_model' =
          IF op = "get_model" /\ memoize /\ r.err = NoError /\ id \notin DOMAIN first_model
          THEN Put(first_model, id, r.ret) ELSE first_model
    /\ first_metric' =
          IF op = "get_metric" /\ memoize /\ r.err = NoError /\ id \notin DOMAIN first_metric
          THEN Put(first_metric, id, r.ret) ELSE first_metric
    /\ UNCHANGED hf_key

CallGetModel ==
    \E id \in ModelIds, memoize \in BOOLEAN, outcome \in Outcomes :
        /\ Apply("get_model", id, memoize, GetModel(World, hf_key, id, memoize, outcome))
        /\ UNCHANGED <<drvvars, asrvars>>

CallGetMetric ==
    \E id \in MetricIds, memoize \in BOOLEAN, outcome \in Outcomes :
        /\ Apply("get_metric", id, memoize, GetMetric(World, hf_key, id, memoize, outcome))
        /\ UNCHANGED <<drvvars, asrvars>>

\* the state after self.compute(text_1, text_2) left c
ApplyCompute(text_1, text_2, c) ==
    /\ last' = [op |-> "compute", id |-> Name(c.self.cls), memoize |-> FALSE,
                ret |-> NoInstance, err |-> c.err,
                self |-> c.self, texts |-> <<text_1, text_2>>, val |-> c.val]
    /\ log' = c.log
    /\ UNCHANGED <<loaded_models, loaded_metrics, allocated, paths, hf_key,
                   first_model, first_metric>>

\* a caller computes a score with a metric it holds: a cached one or the one
\* the last call returned
CallCompute ==
    \E self \in {loaded_metrics[k] : k \in DOMAIN loaded_metrics} \cup {last.ret},
       text_1 \in Texts, text_2 \in Texts :
        /\ self.cls \in {"WER", "EmbeddingSimilarity"}
        /\ \E sim \in Similarities, raised \in EmptyReferenceErrors :
              ApplyCompute(text_1, text_2,
                           MetricCompute(World, self, text_1, text_2, sim, raised))
        /\ UNCHANGED <<drvvars, asrvars>>

\* somebody removes a downloaded model directory
RemoveModelPath ==
    \E mid \in paths :
        /\ paths' = paths \ {mid}
        /\ last' = Idle
        /\ log' = <<>>
        /\ UNCHANGED <<loaded_models, loaded_metrics, allocated, hf_key, first_model, first_metric>>
        /\ UNCHANGED <<drvvars, asrvars>>

\* the credential file appears, disappears or loses its read permission
ChangeCredential ==
    \E k \in {"present", "missing", "unreadable"} \ {hf_key} :
        /\ hf_key' = k
        /\ last' = Idle
        /\ log' = <<>>
        /\ UNCHANGED <<loaded_models, loaded_metrics, allocated, paths, first_model, first_metric>>
        /\ UNCHANGED <<drvvars, asrvars>>

InitRegistry ==
    /\ loaded_models = EmptyDict
    /\ loaded_metrics = EmptyDict
    /\ allocated = 0
    /\ paths \in SUBSET AllModelPaths
    /\ hf_key \in {"present", "missing", "unreadable"}
    /\ log = <<>>
    /\ last = Idle
    /\ first_model = EmptyDict
    /\ first_metric = EmptyDict

\* a process that only calls the registries: the driver is not running
Init ==
    /\ InitRegistry
    /\ listing = <<>>
    /\ cfg_metrics = <<>>
    /\ metrics_pt = [exists |-> FALSE, table |-> [x \in {} |-> 0]]
    /\ drv = NotRunning
    /\ figures = {}
    /\ written = <<>>
    /\ heard = <<>>

Next == CallGetModel \/ CallGetMetric \/ RemoveModelPath \/ ChangeCredential

vars == <<regvars, drvvars, asrvars>>

Spec == Init /\ [][Next]_vars

\* a process that resolves metrics and computes scores with them
NextMetrics == CallGetMetric \/ CallCompute \/ RemoveModelPath

SpecMetrics == Init /\ [][NextMetrics]_vars

----------------------------------------------------------------------------
(* The transcribe methods of the ASR variants, in lib_models.py and in     *)
(* lib/models/automatic_speech_recognition.py                              *)

\* an audio file: its sampling rate and its number of channels
Audios == [rate : {16000, 44100}, channels : {1, 2}]

\* the two files that define the ASR variants
Implementations == {"lib_models", "lib.models"}

AsrVariants == {"Whisper_Large_V3", "Canary_1B", "Wav2vec2_Large_960h_Lv60_Self"}

\* lib.audio.load_audio(audio_path, sampling_rate, mono): the samples of the
\* file at the requested rate, mixed down to one channel when mono is set
LoadAudio(audio, sampling_rate, mono) ==
    [rate |-> sampling_rate, channels |-> IF mono THEN 1 ELSE audio.channels]

\* torchaudio.load(audio_path): the samples of the file as they are stored
TorchaudioLoad(audio) == audio

\* Canary_1B: lib_models.py hands the path of the file to the model;
\* lib/models loads it at 16 kHz, mono, and hands over the samples
CanaryTranscribe(impl, audio) ==
    IF impl = "lib_models" THEN audio ELSE LoadAudio(audio, 16000, TRUE)

\* Wav2vec2_Large_960h_Lv60_Self: lib_models.py loads the file with torchaudio
\* (its resample line is commented out) and feeds the processor and the model;
\* lib/models loads it at 16 kHz, mono
Wav2vec2Transcribe(impl, audio) ==
    IF impl = "lib_models" THEN TorchaudioLoad(audio) ELSE LoadAudio(audio, 16000, TRUE)

\* the pipeline variants hand the path of the file to the pipeline
PipelineTranscribe(impl, audio) == audio

\* model.transcribe(audio_path) / model._apply(audio_path): what reaches the
\* underlying model
Transcribe(impl, variant, audio) ==
    [impl |-> impl, variant |-> variant, audio |-> audio,
     fed |-> CASE variant = "Canary_1B" -> CanaryTranscribe(impl, audio)
               [] variant = "Wav2vec2_Large_960h_Lv60_Self" -> Wav2vec2Transcribe(impl, audio)
               [] OTHER -> PipelineTranscribe(impl, audio)]

\* a caller transcribes a file with an ASR variant of one of the two files
CallTranscribe ==
    /\ Len(heard) < MaxTranscriptions
    /\ \E impl \in Implementations, variant \in AsrVariants, audio \in Audios :
          heard' = Append(heard, Transcribe(impl, variant, audio))
    /\ UNCHANGED <<regvars, drvvars>>

\* a process that transcribes files
NextASR == CallTranscribe

SpecASR == Init /\ [][NextASR]_vars

----------------------------------------------------------------------------
(* lib/arguments.py and the inputs of the driver *)

\* the attributes of the namespace script_args() returns: one per add_argument
ArgsNamespace ==
    {"datasets_path", "output_directory", "models_directory", "hf_key_path",
     "source_separation_models", "asr_models_emvd", "asr_models_songs", "metrics"}

\* --asr_models_songs: the models evaluated on the songs datasets
AsrModelsSongs == <<"Whisper_Large_V3", "Whisper_Large_V2">>

\* script_args().<name>; reading a name outside ArgsNamespace raises AttributeError
ArgValue(name) ==
    CASE name = "metrics" -> cfg_metrics
      [] name = "asr_models_songs" -> AsrModelsSongs

\* lib.audio.list_from_dataset(dataset): the sub-datasets of a dataset, each
\* with its path and its files, in listing order
ListFromDataset(dataset) ==
    CASE dataset = "rock" ->
            << [sub |-> <<"rock", "ballad">>, files |-> <<"f1", "f2">>],
               [sub |-> <<"rock", "metal">>, files |-> <<"f1">>] >>
      [] dataset = "emvd" ->
            << [sub |-> <<"emvd", "growl">>, files |-> <<"f1">>] >>
      [] OTHER -> <<>>

\* the lyrics versions the scoring script wrote for every file
LyricsVersions == {"v1", "v2"}

\* the metrics the scoring script computed
ScoredMetrics == {Name("WER"), Tuple("EmbeddingSimilarity", <<"All_MiniLM_L6_V2">>)}

Index(seq, x) == CHOOSE i \in 1..Len(seq) : seq[i] = x

\* a score, in tenths
ScoreOf(seed, sub, file, model, lv, metric) ==
    ( seed * (1 + Index(<<"f1", "f2">>, file))
      + 3 * Index(AsrModelsSongs, model)
      + (IF lv = "v1" THEN 0 ELSE 4)
      + (IF metric = Name("WER") THEN 0 ELSE 5)
      + (IF sub[2] = "ballad" THEN 0 ELSE 2) ) % 10

\* the complete table the scoring script writes:
\* all_metrics[sub_dataset][file_name][asr_model][lyrics_version][metric_name]
BaseTable(seed) ==
    LET subs == { <<"rock", "ballad">>, <<"rock", "metal">>, <<"emvd", "growl">> }
        FilesOf(sub) == IF sub = <<"rock", "ballad">> THEN {"f1", "f2"} ELSE {"f1"}
    IN  [sub \in subs |->
          [file \in FilesOf(sub) |->
            [model \in {AsrModelsSongs[i] : i \in 1..Len(AsrModelsSongs)} |->
              [lv \in LyricsVersions |->
                [metric \in ScoredMetrics |->
                    ScoreOf(seed, sub, file, model, lv, metric)]]]]]

Drop(f, k) == [x \in DOMAIN f \ {k} |-> f[x]]

\* a table with one entry removed, at level 1 (sub-dataset) .. 5 (metric);
\* level 0 removes nothing
RemoveEntry(t, r) ==
    CASE r.level = 0 -> t
      [] r.level = 1 -> Drop(t, r.sub)
      [] r.level = 2 -> [t EXCEPT ![r.sub] = Drop(@, r.file)]
      [] r.level = 3 -> [t EXCEPT ![r.sub][r.file] = Drop(@, r.model)]
      [] r.level = 4 -> [t EXCEPT ![r.sub][r.file][r.model] = Drop(@, r.lv)]
      [] r.level = 5 -> [t EXCEPT ![r.sub][r.file][r.model][r.lv] = Drop(@, r.metric)]

\* the places of dataset "rock" an entry can be removed from
Removals ==
    LET pos == { [sub |-> <<"rock", "ballad">>, file |-> "f1"],
                 [sub |-> <<"rock", "ballad">>, file |-> "f2"],
                 [sub |-> <<"rock", "metal">>, file |-> "f1"] }
    IN  { [level |-> l, sub |-> q.sub, file |-> q.file, model |-> AsrModelsSongs[i],
           lv |-> v, metric |-> m] :
            l \in 0..5, q \in pos, i \in 1..Len(AsrModelsSongs),
            v \in LyricsVersions, m \in ScoredMetrics }

\* how many different complete tables the driver is run on
NumTables == 2

\* the directory listings the driver is run on
Listings ==
    { <<"rock">>, <<"emvd", "rock">>, <<"songs", "rock">>, <<"rock", "songs">>,
      <<"songs">>, <<"songs", "covers", "rock">> }

\* the values of --metrics the driver is run with
MetricConfigs ==
    { <<Name("WER")>>,
      <<Name("WER"), Tuple("EmbeddingSimilarity", <<"All_MiniLM_L6_V2">>)>>,
      <<Name("WER"), Name("BLEU")>> }

----------------------------------------------------------------------------
(* script_5_analyze_songs.py *)

\* metric.best applied to the scores of one file: min or max
ApplyBest(best, scores) ==
    IF best = "min" THEN CHOOSE x \in scores : \A y \in scores : x <= y
    ELSE CHOOSE x \in scores : \A y \in scores : x >= y

RECURSIVE SumSeq(_)
SumSeq(q) == IF q = <<>> THEN 0 ELSE q[1] + SumSeq(Tail(q))

\* torch.mean(torch.tensor(best_per_song)).item(): the mean as sum over count
\* (not a number when the list is empty)
MeanValue(best_per_song) == [sum |-> SumSeq(best_per_song), n |-> Len(best_per_song)]

\* one element of best_per_song: metric.best(all_metrics[sub][file][model][lv][metric_name]
\* for lv in all_metrics[sub][file][model])
BestOfFile(t, metric, metric_name, sub, file, model) ==
    IF metric.best = "none" THEN [err |-> "AttributeError", val |-> 0]
    ELSE IF sub \notin DOMAIN t \/ file \notin DOMAIN t[sub]
             \/ model \notin DOMAIN t[sub][file]
         THEN [err |-> "KeyError", val |-> 0]
    ELSE LET byLv == t[sub][file][model]
         IN  IF \E lv \in DOMAIN byLv : metric_name \notin DOMAIN byLv[lv]
             THEN [err |-> "KeyError", val |-> 0]
             ELSE IF DOMAIN byLv = {} THEN [err |-> "ValueError", val |-> 0]
             ELSE [err |-> NoError,
                   val |-> ApplyBest(metric.best,
                                     {byLv[lv][metric_name] : lv \in DOMAIN byLv})]

\* the row appended for one (sub_dataset, asr_model), or the exception raised
RowOf(t, metric, metric_name, entry, model) ==
    LET per == [i \in 1..Len(entry.files) |->
                   BestOfFile(t, metric, metric_name, entry.sub, entry.files[i], model)]
        bad == {i \in 1..Len(per) : per[i].err # NoError}
    IN  IF bad # {}
        THEN [err |-> per[CHOOSE i \in bad : \A j \in bad : i <= j].err,
              row |-> [Style |-> "", Model |-> model, Metric |-> metric_name,
                       Value |-> MeanValue(<<>>)]]
        ELSE [err |-> NoError,
              row |-> [Style |-> entry.sub[Len(entry.sub)], Model |-> model,
                       Metric |-> metric_name,
                       Value |-> MeanValue([i \in 1..Len(per) |-> per[i].val])]]

\* the loops over sub-datasets and ASR models (lines 66-72): the rows of
\* data, or the exception that ends them
Aggregate(all_file_paths, t, metric, metric_name) ==
    IF all_file_paths = <<>> THEN [err |-> NoError, rows |-> <<>>]
    ELSE IF "asr_models" \notin ArgsNamespace
         THEN [err |-> "AttributeError", rows |-> <<>>]
    ELSE LET models == ArgValue("asr_models")
             nm == Len(models)
             cells == [k \in 1..(Len(all_file_paths) * nm) |->
                          RowOf(t, metric, metric_name,
                                all_file_paths[((k - 1) \div nm) + 1],
                                models[((k - 1) % nm) + 1])]
             bad == {k \in 1..Len(cells) : cells[k].err # NoError}
             stop == IF bad = {} THEN Len(cells) + 1
                     ELSE CHOOSE k \in bad : \A j \in bad : k <= j
         IN  [err |-> IF bad = {} THEN NoError ELSE cells[stop].err,
              rows |-> [k \in 1..(stop - 1) |-> cells[k].row]]

\* the figure file of a (dataset, metric) pair:
\* {output_directory}/figures/{dataset} - {metric_name}.png
FigurePath(dataset, metric_name) == [dataset |-> dataset, metric |-> metric_name]

Failed(d, e) == [d EXCEPT !.pc = "failed", !.err = e]

\* line 50: the datasets under audio/, without the reference dataset
DriverListDatasets ==
    /\ drv.pc = "start"
    /\ drv' = [drv EXCEPT !.pc = "dataset", !.di = 1,
                          !.datasets = SelectSeq(listing, LAMBDA f : f # "emvd")]
    /\ UNCHANGED <<regvars, listing, cfg_metrics, metrics_pt, figures, written, asrvars>>

\* mutant: after loading, the table is pruned of the reference dataset and
\* saved back to metrics.pt
DriverNextDatasetPruning ==
    /\ drv.pc = "dataset"
    /\ drv' = IF drv.di > Len(drv.datasets) THEN [drv EXCEPT !.pc = "done"]
              ELSE IF ~metrics_pt.exists THEN Failed(drv, "FileNotFoundError")
              ELSE [drv EXCEPT !.pc = "metric", !.mi = 1]
    /\ metrics_pt' = IF drv.di > Len(drv.datasets) \/ ~metrics_pt.exists THEN metrics_pt
                     ELSE [metrics_pt EXCEPT !.table = Drop(@, <<"emvd", "growl">>)]
    /\ UNCHANGED <<regvars, listing, cfg_metrics, figures, written, asrvars>>

\* lines 51-59: the next dataset: list its files, load the score table
DriverNextDataset ==
    /\ drv.pc = "dataset"
    /\ drv' = IF drv.di > Len(drv.datasets) THEN [drv EXCEPT !.pc = "done"]
              ELSE IF ~metrics_pt.exists THEN Failed(drv, "FileNotFoundError")
              ELSE [drv EXCEPT !.pc = "metric", !.mi = 1]
    /\ UNCHANGED <<regvars, listing, cfg_metrics, metrics_pt, figures, written, asrvars>>

\* mutant: a metric that cannot be resolved is skipped (try/except: continue)
DriverNextMetricSkipping ==
    /\ drv.pc = "metric"
    /\ IF drv.mi > Len(cfg_metrics)
       THEN /\ drv' = [drv EXCEPT !.pc = "dataset", !.di = @ + 1]
            /\ UNCHANGED regvars
       ELSE \E outcome \in Outcomes :
              /\ Apply("get_metric", ArgValue("metrics")[drv.mi], TRUE,
                       GetMetric(World, hf_key, ArgValue("metrics")[drv.mi], TRUE, outcome))
              /\ drv' = [drv EXCEPT
                           !.cur = FigurePath(drv.datasets[drv.di], cfg_metrics[drv.mi]),
                           !.resolved = (last'.err = NoError),
                           !.data = <<>>,
                           !.err = last'.err,
                           !.mi = IF last'.err = NoError THEN @ ELSE @ + 1,
                           !.pc = IF last'.err = NoError THEN "aggregate" ELSE "metric"]
    /\ UNCHANGED <<listing, cfg_metrics, metrics_pt, figures, written, asrvars>>

\* lines 62-65: the next metric of the dataset, resolved through get_metric
DriverNextMetric ==
    /\ drv.pc = "metric"
    /\ IF drv.mi > Len(cfg_metrics)
       THEN /\ drv' = [drv EXCEPT !.pc = "dataset", !.di = @ + 1]
            /\ UNCHANGED regvars
       ELSE \E outcome \in Outcomes :
              /\ Apply("get_metric", ArgValue("metrics")[drv.mi], TRUE,
                       GetMetric(World, hf_key, ArgValue("metrics")[drv.mi], TRUE, outcome))
              /\ drv' = [drv EXCEPT
                           !.cur = FigurePath(drv.datasets[drv.di], cfg_metrics[drv.mi]),
                           !.resolved = (last'.err = NoError),
                           !.data = <<>>,
                           !.err = last'.err,
                           !.pc = IF last'.err = NoError THEN "aggregate" ELSE "failed"]
    /\ UNCHANGED <<listing, cfg_metrics, metrics_pt, figures, written, asrvars>>

\* mutant: the image is written from whatever rows were collected, also when
\* the loops raised (a try/except around lines 67-72)
DriverWritePartial(agg, plot) ==
    /\ drv' = [drv EXCEPT !.data = agg.rows, !.pc = "metric", !.mi = @ + 1]
    /\ figures' = {f \in figures : f.path # drv.cur}
                     \cup {[path |-> drv.cur, rows |-> agg.rows]}
    /\ written' = written \o <<[op |-> "write_image", path |-> drv.cur],
                               [op |-> "chmod", path |-> drv.cur]>>

\* what lines 66-81 do with the rows: draw the figure (which may raise),
\* write the image, relax its permissions
DriverWrite(agg, plot) ==
    IF agg.err # NoError
    THEN /\ drv' = Failed([drv EXCEPT !.data = agg.rows], agg.err)
         /\ UNCHANGED <<figures, written>>
    ELSE IF plot = "fail"
    THEN /\ drv' = Failed([drv EXCEPT !.data = agg.rows], "ValueError")
         /\ UNCHANGED <<figures, written>>
    ELSE /\ drv' = [drv EXCEPT !.data = agg.rows, !.pc = "metric", !.mi = @ + 1]
         /\ figures' = {f \in figures : f.path # drv.cur}
                          \cup {[path |-> drv.cur, rows |-> agg.rows]}
         /\ written' = written \o <<[op |-> "write_image", path |-> drv.cur],
                                    [op |-> "chmod", path |-> drv.cur]>>

\* lines 66-81: aggregate the scores of the dataset for the resolved metric
\* (the value get_metric returned), draw and save the figure
DriverFigure ==
    /\ drv.pc = "aggregate"
    /\ \E plot \in {"ok", "fail"} :
          DriverWrite(Aggregate(ListFromDataset(drv.cur.dataset), metrics_pt.table,
                                last.ret, drv.cur.metric), plot)
    /\ UNCHANGED <<regvars, listing, cfg_metrics, metrics_pt, asrvars>>

\* the driver started in a fresh process, on some dataset tree, configuration
\* and score table
InitDriver ==
    /\ loaded_models = EmptyDict
    /\ loaded_metrics = EmptyDict
    /\ allocated = 0
    /\ paths \in {{}, AllModelPaths}
    /\ hf_key \in {"present", "missing"}
    /\ log = <<>>
    /\ last = Idle
    /\ first_model = EmptyDict
    /\ first_metric = EmptyDict
    /\ listing \in Listings
    /\ cfg_metrics \in MetricConfigs
    /\ \/ metrics_pt = [exists |-> FALSE, table |-> [x \in {} |-> 0]]
       \/ \E seed \in 1..NumTables, r \in Removals :
             metrics_pt = [exists |-> TRUE, table |-> RemoveEntry(BaseTable(seed), r)]
    /\ drv = [NotRunning EXCEPT !.pc = "start"]
    /\ figures = {}
    /\ written = <<>>
    /\ heard = <<>>

NextDriver ==
    DriverListDatasets \/ DriverNextDataset \/ DriverNextMetric \/ DriverFigure

SpecDriver == InitDriver /\ [][NextDriver]_vars

----------------------------------------------------------------------------
(* Properties of the registries *)

\* the events of the last call that concern model id mid, by name
EventsOf(lg, mid) ==
    LET ForMid(e) == e.arg = mid
        sel == SelectSeq(lg, ForMid)
    IN  [i \in 1..Len(sel) |-> sel[i].ev]

HubEvents(lg, mid) ==
    LET Hub(e) == e.arg = mid /\ e.ev \in {"login", "snapshot_download", "chmod"}
        sel == SelectSeq(lg, Hub)
    IN  [i \in 1..Len(sel) |-> sel[i].ev]

Count(lg, ev) == Cardinality({i \in 1..Len(lg) : lg[i].ev = ev})

\* the constructor of model class c ran in the call that produced lg
Instantiated(lg, c) == \E i \in 1..Len(lg) : lg[i] = Ev("init", c)

\* the exceptions the hub calls (login, snapshot_download) raise
HubExceptions == {"HfHubHTTPError", "ConnectionError", "OSError"}

\* C1: once a memoized get_model(id) has succeeded, every later memoized
\* get_model(id) returns that same instance, constructs nothing, and performs
\* no login, no download and no other side effect, whatever was called in
\* between and whether or not the model's local path still exists.
C1_GetModelIdempotent ==
    [][ (last'.op = "get_model" /\ last'.memoize /\ last'.id \in DOMAIN first_model)
        => /\ last'.err = NoError
           /\ last'.ret = first_model[last'.id]
           /\ allocated' = allocated
           /\ log' = <<>>
           /\ paths' = paths ]_vars

\* C1 witness: a memoized get_model answered from the cache with the first
\* instance, after other instances were constructed and with the local path gone
C1_Witness ==
    /\ last.op = "get_model" /\ last.memoize /\ last.err = NoError
    /\ last.id \in DOMAIN first_model /\ last.ret = first_model[last.id]
    /\ last.ret.oid < allocated
    /\ log = <<>>
    /\ ModelIdOf(last.id.name) \notin paths

\* C2 (as claimed): once a memoized get_metric(id) has succeeded, every later
\* memoized get_metric(id), bare name or tuple, returns that same instance and
\* constructs no new metric.
C2_GetMetricIdempotent ==
    [][ (last'.op = "get_metric" /\ last'.memoize /\ last'.id \in DOMAIN first_metric)
        => /\ last'.err = NoError
           /\ last'.ret = first_metric[last'.id]
           /\ allocated' = allocated ]_vars

\* C3 (as claimed): in both caches an entry, once present, stays mapped to the
\* same instance in every later state.
C3_FirstWriterWins ==
    [][ /\ \A k \in DOMAIN loaded_models :
              k \in DOMAIN loaded_models' /\ loaded_models'[k] = loaded_models[k]
        /\ \A k \in DOMAIN loaded_metrics :
              k \in DOMAIN loaded_metrics' /\ loaded_metrics'[k] = loaded_metrics[k] ]_vars

\* C4 (as claimed): a memoized get_model given a tuple (name, *args) whose name
\* is a concrete variant fails only if an external call fails, and otherwise
\* returns an instance of that variant, stored under the identifier.
C4_TupleIdentifierResolves ==
    (last.op = "get_model" /\ last.memoize /\ last.id.tup
        /\ LibModelsAttr(last.id.name) = "model")
    => /\ last.err \in {NoError, "FileNotFoundError", "PermissionError", "RuntimeError"}
                       \cup HubExceptions
       /\ last.err = NoError =>
            /\ last.ret.cls = last.id.name
            /\ Get(loaded_models, last.id) = last.ret

\* C5: whenever a model class is instantiated: if its local path existed, the
\* call performs no credential read, login, download or chmod for it; if the
\* path was absent, the credential file is readable and the hub calls do not
\* raise, then login, snapshot download and chmod happen exactly once each, in
\* that order, and the path exists afterwards.
C5_DownloadIfAbsent ==
    [][ \A c \in ModelClasses :
          Instantiated(log', c) =>
            /\ ModelIdOf(c) \in paths =>
                 EventsOf(log', ModelIdOf(c)) = <<>>
            /\ (ModelIdOf(c) \notin paths /\ hf_key = "present"
                  /\ last'.err \notin HubExceptions) =>
                 /\ HubEvents(log', ModelIdOf(c)) = <<"login", "snapshot_download", "chmod">>
                 /\ ModelIdOf(c) \in paths' ]_vars

\* C5 witness: a call that instantiated a model whose path was absent: it
\* logged in, downloaded and relaxed the permissions, and the path now exists
C5_Witness ==
    \E c \in ModelClasses :
        /\ Instantiated(log, c)
        /\ HubEvents(log, ModelIdOf(c)) = <<"login", "snapshot_download", "chmod">>
        /\ ModelIdOf(c) \in paths
        /\ last.err = NoError /\ last.ret.cls = c

\* the name of the last call's identifier names no variant class of its registry
UnknownName ==
    \/ last.op = "get_model" /\ LibModelsAttr(last.id.name) # "model"
    \/ last.op = "get_metric" /\ last.id.name \notin {"WER", "EmbeddingSimilarity"}

\* C6 (as claimed): resolving a name that names no variant class fails with a
\* ConfigurationError, in get_model and in get_metric.
C6_UnknownNameConfigurationError ==
    UnknownName => last.err = "ConfigurationError"

\* the name of the last call's identifier is not bound in the registry's module
MissingName ==
    \/ /\ last.op = "get_model" /\ ~last.id.tup
       /\ last.id.name \notin ModelClasses \cup AbstractClasses
    \/ /\ last.op = "get_metric"
       /\ last.id.name \notin {"WER", "EmbeddingSimilarity"} \cup ModelClasses
                                                             \cup AbstractClasses

\* C6 (amended): resolving a name that is not bound in the registry's module
\* (a bare name for get_model, either shape for get_metric) fails with
\* Python's AttributeError: nothing is returned, constructed or cached.
C6_MissingNameAttributeError ==
    MissingName =>
        /\ last.err = "AttributeError"
        /\ last.ret = NoInstance
        /\ log = <<>>
        /\ last.id \notin DOMAIN loaded_models \cup DOMAIN loaded_metrics

\* C6 witness: get_model of a name lib_models does not define has failed
C6_Witness ==
    /\ last.op = "get_model" /\ last.id = Name("Phi_4_Multimodal_Instruct")
    /\ last.err = "AttributeError"

\* C7 (as claimed): instantiating a model whose path is absent while the
\* credential file is missing or unreadable fails with a CredentialError
\* before any snapshot download is attempted.
C7_CredentialError ==
    [][ \A c \in ModelClasses :
          (Instantiated(log', c) /\ ModelIdOf(c) \notin paths /\ hf_key # "present")
          => /\ last'.err = "CredentialError"
             /\ Count(log', "snapshot_download") = 0 ]_vars

\* C7 (amended): instantiating a model whose path is absent while the
\* credential file is missing or unreadable fails with the OSError that open()
\* raises (FileNotFoundError, PermissionError), before any login or snapshot
\* download is attempted; no instance is returned and the path stays absent.
C7_CredentialOSError ==
    [][ \A c \in ModelClasses :
          (Instantiated(log', c) /\ ModelIdOf(c) \notin paths /\ hf_key # "present")
          => /\ last'.err = (IF hf_key = "missing" THEN "FileNotFoundError"
                                                   ELSE "PermissionError")
             /\ last'.ret = NoInstance
             /\ Count(log', "login") = 0
             /\ Count(log', "snapshot_download") = 0
             /\ paths' = paths ]_vars

\* C7 witness: a resolution that stopped at reading the missing credential file
C7_Witness ==
    /\ last.err = "FileNotFoundError" /\ hf_key = "missing"
    /\ log # <<>> /\ log[Len(log)].ev = "open"
    /\ log[Len(log)].arg \notin paths

\* the snapshot download of the last call raised: it is the call's last event
DownloadFailed == log # <<>> /\ log[Len(log)].ev = "snapshot_download"

\* C8 (as claimed): a failed snapshot download is attempted once, surfaces to
\* the caller as a DownloadError, and no instance is returned.
C8_DownloadError ==
    DownloadFailed =>
        /\ Count(log, "snapshot_download") <= 1
        /\ last.err = "DownloadError"
        /\ last.ret = NoInstance

\* C8 (amended): no call attempts the snapshot download more than once, and a
\* failed download surfaces to the caller unchanged, as the exception
\* snapshot_download raised, with no instance returned.
C8_DownloadFailureSurfaces ==
    /\ Count(log, "snapshot_download") <= 1
    /\ DownloadFailed =>
          /\ last.err \in {"ConnectionError", "OSError"}
          /\ last.ret = NoInstance

\* C8 witness: a get_model whose snapshot download failed
C8_Witness ==
    /\ DownloadFailed
    /\ last.op = "get_model" /\ last.err = "ConnectionError"

----------------------------------------------------------------------------
(* Properties of the driver *)

\* lines 66-72 have run for the pair drv.cur, whose metric get_metric resolved
Aggregated == drv.resolved /\ drv.pc # "aggregate"

\* the (sub-dataset, model) pairs of a dataset, sub-datasets outermost
PairsOf(dataset) ==
    [k \in 1..(Len(ListFromDataset(dataset)) * Len(AsrModelsSongs)) |->
        [entry |-> ListFromDataset(dataset)[((k - 1) \div Len(AsrModelsSongs)) + 1],
         model |-> AsrModelsSongs[((k - 1) % Len(AsrModelsSongs)) + 1]]]

\* the score table lacks an entry the aggregation of (dataset, metric_name)
\* requires: a sub-dataset, file, model, lyrics version or metric
MissingRequired(t, dataset, metric_name) ==
    \E k \in 1..Len(PairsOf(dataset)) :
      \E i \in 1..Len(PairsOf(dataset)[k].entry.files), lv \in LyricsVersions :
        \/ PairsOf(dataset)[k].entry.sub \notin DOMAIN t
        \/ PairsOf(dataset)[k].entry.files[i] \notin DOMAIN t[PairsOf(dataset)[k].entry.sub]
        \/ PairsOf(dataset)[k].model \notin
              DOMAIN t[PairsOf(dataset)[k].entry.sub][PairsOf(dataset)[k].entry.files[i]]
        \/ lv \notin DOMAIN t[PairsOf(dataset)[k].entry.sub]
                              [PairsOf(dataset)[k].entry.files[i]][PairsOf(dataset)[k].model]
        \/ metric_name \notin DOMAIN t[PairsOf(dataset)[k].entry.sub]
                                       [PairsOf(dataset)[k].entry.files[i]]
                                       [PairsOf(dataset)[k].model][lv]

\* the best score of one file among its lyrics versions, for a metric kind
BestScore(t, kind, metric_name, sub, file, model) ==
    IF kind = "min"
    THEN CHOOSE x \in 0..9 :
           /\ \E lv \in LyricsVersions : t[sub][file][model][lv][metric_name] = x
           /\ \A lv \in LyricsVersions : t[sub][file][model][lv][metric_name] >= x
    ELSE CHOOSE x \in 0..9 :
           /\ \E lv \in LyricsVersions : t[sub][file][model][lv][metric_name] = x
           /\ \A lv \in LyricsVersions : t[sub][file][model][lv][metric_name] <= x

RECURSIVE TotalBest(_, _, _, _, _, _)
TotalBest(t, kind, metric_name, sub, files, model) ==
    IF files = <<>> THEN 0
    ELSE BestScore(t, kind, metric_name, sub, Head(files), model)
           + TotalBest(t, kind, metric_name, sub, Tail(files), model)

\* the rows the aggregation is to record: per (style, model) pair the mean
\* (total over count) over the files of the style of the per-file best
ExpectedRows(t, dataset, metric_name) ==
    [k \in 1..Len(PairsOf(dataset)) |->
        [Style |-> PairsOf(dataset)[k].entry.sub[2],
         Model |-> PairsOf(dataset)[k].model,
         Metric |-> metric_name,
         Value |-> [sum |-> TotalBest(t, BestOf(metric_name.name), metric_name,
                                      PairsOf(dataset)[k].entry.sub,
                                      PairsOf(dataset)[k].entry.files,
                                      PairsOf(dataset)[k].model),
                    n |-> Len(PairsOf(dataset)[k].entry.files)]]]

\* C9 (as claimed): once the driver has aggregated a (dataset, metric) pair
\* whose required scores are all in the table, the rows it recorded are exactly
\* one per (style, model) pair of the dataset, in order, each with the
\* arithmetic mean over the files of the style of the per-file best score (min
\* or max, by metric kind, over the file's lyrics versions).
C9_AggregationIsMeanOfBest ==
    (Aggregated /\ ~MissingRequired(metrics_pt.table, drv.cur.dataset, drv.cur.metric))
        => drv.data = ExpectedRows(metrics_pt.table, drv.cur.dataset, drv.cur.metric)

DatasetIncomplete(dataset) ==
    \E i \in 1..Len(cfg_metrics) : MissingRequired(metrics_pt.table, dataset, cfg_metrics[i])

\* C11: a figure file exists only for a (dataset, metric) pair of a dataset
\* with no required entry missing, and it holds every (style, model) value of
\* the pair; and a failed driver is not resumed: once an exception has ended
\* the run, no step follows, so nothing is retried and no figure appears.
C11_NoPartialFigure ==
    /\ [](\A f \in figures :
            /\ ~DatasetIncomplete(f.path.dataset)
            /\ f.rows = ExpectedRows(metrics_pt.table, f.path.dataset, f.path.metric))
    /\ [][drv.pc = "failed" => (drv' = drv /\ figures' = figures /\ written' = written)]_vars

\* C11 witness: the driver wrote the figure of one dataset and then failed in
\* the aggregation of a dataset with a required entry missing, which has no figure
C11_Witness ==
    /\ drv.pc = "failed" /\ Aggregated
    /\ MissingRequired(metrics_pt.table, drv.cur.dataset, drv.cur.metric)
    /\ figures # {}
    /\ \A f \in figures : f.path.dataset # drv.cur.dataset

\* the (dataset, metric) pairs the driver is to draw: every listed dataset but
\* the reference dataset, with every configured metric
PairsToDraw ==
    {FigurePath(listing[i], cfg_metrics[j]) :
        i \in {n \in 1..Len(listing) : listing[n] # "emvd"}, j \in 1..Len(cfg_metrics)}

\* the events of written that concern one path, in order
WrittenTo(path) == SelectSeq(written, LAMBDA e : e.path = path)

\* the run has ended, and neither metric resolution nor the charting library
\* made it fail
EndedWithoutExternalFailure ==
    \/ drv.pc = "done"
    \/ drv.pc = "failed" /\ Aggregated /\ drv.err # "ValueError"

\* C12 (as claimed): given a complete score table, the driver ends normally
\* having written exactly one image per (dataset, metric) pair, for every
\* listed dataset but "emvd" and every configured metric, each at its own
\* path, the permissions of each relaxed right after its image was written.
C12_OneImagePerPair ==
    ( /\ metrics_pt.exists
      /\ \A q \in PairsToDraw : ~MissingRequired(metrics_pt.table, q.dataset, q.metric)
      /\ EndedWithoutExternalFailure )
    => /\ drv.pc = "done"
       /\ {f.path : f \in figures} = PairsToDraw
       /\ \A q \in PairsToDraw :
             WrittenTo(q) = <<[op |-> "write_image", path |-> q], [op |-> "chmod", path |-> q]>>

----------------------------------------------------------------------------
(* Properties of the metric classes *)

\* the largest score (in tenths) of the lists the reducers are tried on
MaxScore == 4

\* the instances the process holds: the cached ones and the one last returned
LiveInstances ==
    {loaded_metrics[k] : k \in DOMAIN loaded_metrics}
        \cup {loaded_models[k] : k \in DOMAIN loaded_models} \cup {last.ret}

\* C13: every WER instance carries the minimum as its best reducer and every
\* EmbeddingSimilarity instance the maximum: applied to any non-empty list of
\* scores, the first returns an element no other is smaller than, the second
\* an element no other is larger than ([1,4,2] gives 1, [9,4,7] gives 9).
C13_BestReducerPerKind ==
    \A m \in LiveInstances :
        /\ m.cls = "WER" =>
              /\ m.best = "min"
              /\ ApplyBest(m.best, {1, 4, 2}) = 1
              /\ \A q \in SUBSET (0..MaxScore) \ {{}} :
                    /\ ApplyBest(m.best, q) \in q
                    /\ \A y \in q : ApplyBest(m.best, q) <= y
        /\ m.cls = "EmbeddingSimilarity" =>
              /\ m.best = "max"
              /\ ApplyBest(m.best, {9, 4, 7}) = 9
              /\ \A q \in SUBSET (0..MaxScore) \ {{}} :
                    /\ ApplyBest(m.best, q) \in q
                    /\ \A y \in q : ApplyBest(m.best, q) >= y

\* C13 witness: the process holds a WER and an EmbeddingSimilarity instance
C13_Witness ==
    /\ \E m \in LiveInstances : m.cls = "WER"
    /\ \E m \in LiveInstances : m.cls = "EmbeddingSimilarity"

\* the embedding model the EmbeddingSimilarity identifiers name
EmbeddingModel == "All_MiniLM_L6_V2"

\* the step is a get_metric call that resolved an EmbeddingSimilarity identifier
ResolvesEmbeddingSimilarity ==
    last'.op = "get_metric" /\ last'.id.name = "EmbeddingSimilarity"

\* C14: every EmbeddingSimilarity instance holds the model instance cached in
\* loaded_models under the name of its embedding model, so all of them share
\* it; that entry never changes; and a resolution of the metric constructs the
\* model at most once, and not at all (no constructor, no login, download or
\* chmod) once the model is cached.
C14_EmbeddingModelShared ==
    /\ [](\A m \in LiveInstances :
            m.cls = "EmbeddingSimilarity" =>
               /\ Name(EmbeddingModel) \in DOMAIN loaded_models
               /\ m.model = loaded_models[Name(EmbeddingModel)].oid)
    /\ [][ /\ Name(EmbeddingModel) \in DOMAIN loaded_models =>
                /\ Name(EmbeddingModel) \in DOMAIN loaded_models'
                /\ loaded_models'[Name(EmbeddingModel)] = loaded_models[Name(EmbeddingModel)]
           /\ ResolvesEmbeddingSimilarity =>
                /\ Cardinality({i \in 1..Len(log') : log'[i] = Ev("init", EmbeddingModel)}) <= 1
                /\ Name(EmbeddingModel) \in DOMAIN loaded_models =>
                      /\ ~Instantiated(log', EmbeddingModel)
                      /\ HubEvents(log', ModelIdOf(EmbeddingModel)) = <<>>
                      /\ paths' = paths ]_vars

\* C14 witness: two different EmbeddingSimilarity instances are held, the
\* second resolved after the model was cached and its local path removed, and
\* both hold the one cached model
C14_Witness ==
    /\ last.op = "get_metric" /\ last.err = NoError /\ last.ret.cls = "EmbeddingSimilarity"
    /\ ~Instantiated(log, EmbeddingModel)
    /\ ModelIdOf(EmbeddingModel) \notin paths
    /\ \E m \in LiveInstances :
          /\ m.cls = "EmbeddingSimilarity" /\ m.oid # last.ret.oid
          /\ m.model = last.ret.model
          /\ loaded_models[Name(EmbeddingModel)].oid = m.model

\* the last call was compute on a WER instance
ComputedWER == last.op = "compute" /\ last.self.cls = "WER"

C16_ComputeIsPure ==
    [][ last'.op = "compute" =>
          /\ last'.self.cls \in {"WER", "EmbeddingSimilarity"}
          /\ loaded_models' = loaded_models
          /\ loaded_metrics' = loaded_metrics
          /\ allocated' = allocated
          /\ paths' = paths
          /\ \/ last'.self \in {loaded_metrics[k] : k \in DOMAIN loaded_metrics}
             \/ last'.self \in {last.ret, last.self}
          /\ \A i \in 1..Len(log') : log'[i].ev \in {"wer.compute", "embed"} ]_vars

\* C16 witness: a score was computed with a cached EmbeddingSimilarity
\* instance whose model's local path is gone
C16_Witness ==
    /\ last.op = "compute" /\ last.err = NoError
    /\ last.self.cls = "EmbeddingSimilarity"
    /\ last.self \in {loaded_metrics[k] : k \in DOMAIN loaded_metrics}
    /\ loaded_models[Name(EmbeddingModel)].oid = last.self.model
    /\ ModelIdOf(EmbeddingModel) \notin paths
    /\ Len(log) = 2

\* C17: no step of the driver changes the score table or metrics.pt; what it
\* writes is the image of the pair it has just aggregated followed by the
\* chmod of that image, and a model directory appears only in the step that
\* resolves a metric.
C17_ScoreTableReadOnly ==
    [][ /\ metrics_pt' = metrics_pt
        /\ written' # written =>
              /\ drv.pc = "aggregate"
              /\ written' = written \o <<[op |-> "write_image", path |-> drv.cur],
                                         [op |-> "chmod", path |-> drv.cur]>>
        /\ paths' # paths => (drv.pc = "metric" /\ last'.op = "get_metric") ]_vars

\* C17 witness: a run over an existing score table that wrote an image, has
\* the embedding model's directory on disk and a metric cached, and then failed
\* in a step that ran a constructor
C17_Witness ==
    /\ metrics_pt.exists /\ drv.pc = "failed"
    /\ written # <<>>
    /\ paths # {} /\ first_metric # EmptyDict /\ ModelIdOf(EmbeddingModel) \in paths
    /\ Len(log) > 0

----------------------------------------------------------------------------
(* Properties of the ASR variants *)

RateSensitive == {"Canary_1B", "Wav2vec2_Large_960h_Lv60_Self"}

\* C18 (as claimed): whatever the file, every transcribe call of a
\* rate-sensitive variant, in either implementation, hands its underlying
\* model single-channel audio at 16 kHz.
C18_ResampledBeforeModel ==
    \A i \in 1..Len(heard) :
        heard[i].variant \in RateSensitive => heard[i].fed = [rate |-> 16000, channels |-> 1]

----------------------------------------------------------------------------
(* Properties of failed and of aliased resolutions *)

\* the step is a registry call that raised
ResolutionFailed == last'.op \in {"get_model", "get_metric"} /\ last'.err # NoError

\* C19: a get_model or get_metric call that raises leaves loaded_models and
\* loaded_metrics exactly as they were and returns no instance; if it was
\* memoized, its identifier is in no state cached by it, so the next call with
\* that identifier constructs again.
C19_FailureLeavesCaches ==
    [][ ResolutionFailed =>
          /\ loaded_models' = loaded_models
          /\ loaded_metrics' = loaded_metrics
          /\ last'.ret = NoInstance
          /\ (last'.memoize /\ last'.op = "get_model") => last'.id \notin DOMAIN loaded_models'
          /\ (last'.memoize /\ last'.op = "get_metric") => last'.id \notin DOMAIN loaded_metrics'
      ]_vars

\* C19 witness: with a model and a metric cached, a memoized get_model ran a
\* constructor, failed in it, and its identifier is not cached
C19_Witness ==
    /\ last.op = "get_model" /\ last.memoize /\ last.err \in HubExceptions
    /\ Instantiated(log, last.id.name)
    /\ loaded_models # EmptyDict /\ loaded_metrics # EmptyDict
    /\ last.id \notin DOMAIN loaded_models

\* C20 (as claimed): no two different identifiers have been answered, by
\* memoized get_metric calls, with the same instance; and every instance in
\* loaded_metrics is stored under the identifier it was built from (an
\* EmbeddingSimilarity instance, which only a tuple naming its model can
\* build, under that tuple).
C20_NoMetricAliasing ==
    /\ \A a \in DOMAIN first_metric, b \in DOMAIN first_metric :
          a # b => first_metric[a].oid # first_metric[b].oid
    /\ \A k \in DOMAIN loaded_metrics :
          loaded_metrics[k].cls = "EmbeddingSimilarity" => (k.tup /\ Len(k.args) = 1)

----------------------------------------------------------------------------
(* Properties of unmemoized calls and of the credential file *)

\* the step is a registry call with memoize=False
Unmemoized == last'.op \in {"get_model", "get_metric"} /\ ~last'.memoize

\* the instance the step returned was constructed in it and is in no cache
ReturnedFresh ==
    /\ last'.ret.oid > allocated
    /\ last'.ret \notin {loaded_models'[k] : k \in DOMAIN loaded_models'}
    /\ last'.ret \notin {loaded_metrics'[k] : k \in DOMAIN loaded_metrics'}

\* C21 (as claimed): a get_model or get_metric call with memoize=False leaves
\* loaded_models and loaded_metrics exactly as they were, and when it returns
\* it returns an instance constructed in that call, different from every
\* cached one.
C21_UnmemoizedBypassesCaches ==
    [][ Unmemoized =>
          /\ loaded_models' = loaded_models
          /\ loaded_metrics' = loaded_metrics
          /\ last'.err = NoError => ReturnedFresh ]_vars

\* C21 (amended): a call with memoize=False never changes the cache of its own
\* registry and, when it returns, returns an instance constructed in that
\* call, different from every cached one; get_model leaves loaded_metrics
\* alone too; get_metric may change loaded_models only by adding the entry of
\* the embedding model an EmbeddingSimilarity identifier names (that model is
\* resolved by a memoized get_model), and never changes an existing entry.
C21_UnmemoizedLeavesOwnCache ==
    [][ Unmemoized =>
          /\ loaded_metrics' = loaded_metrics
          /\ last'.err = NoError => ReturnedFresh
          /\ last'.op = "get_model" => loaded_models' = loaded_models
          /\ \A k \in DOMAIN loaded_models :
                k \in DOMAIN loaded_models' /\ loaded_models'[k] = loaded_models[k]
          /\ \A k \in DOMAIN loaded_models' \ DOMAIN loaded_models :
                /\ last'.op = "get_metric" /\ last'.id.name = "EmbeddingSimilarity"
                /\ last'.id.tup /\ k = Name(last'.id.args[1]) ]_vars

\* C21 witness: an unmemoized get_metric returned a new EmbeddingSimilarity
\* instance, not the cached one, having constructed and cached its model
C21_Witness ==
    /\ last.op = "get_metric" /\ ~last.memoize /\ last.err = NoError
    /\ last.ret.cls = "EmbeddingSimilarity"
    /\ Instantiated(log, EmbeddingModel)
    /\ loaded_models[Name(EmbeddingModel)].oid = last.ret.model
    /\ loaded_metrics # EmptyDict
    /\ last.ret \notin {loaded_metrics[k] : k \in DOMAIN loaded_metrics}

\* what fails when the credential file cannot be read or is refused
CredentialFailures == {"FileNotFoundError", "PermissionError", "HfHubHTTPError"}

\* C22: when a model class is instantiated while its local path exists, the
\* call neither opens the credential file nor logs in, whatever the state of
\* that file, and does not fail for the credential; a get_model of that class
\* then returns an instance of it unless the class's own loading raises.
C22_CredentialOnlyForDownload ==
    [][ \A c \in ModelClasses :
          (Instantiated(log', c) /\ ModelIdOf(c) \in paths) =>
            /\ \A i \in 1..Len(log') :
                  log'[i] \notin {Ev("open", ModelIdOf(c)), Ev("login", ModelIdOf(c))}
            /\ last'.err \notin CredentialFailures
            /\ (last'.op = "get_model" /\ last'.id = Name(c)) =>
                  /\ last'.err \in {NoError, "RuntimeError"}
                  /\ last'.err = NoError => last'.ret.cls = c ]_vars

\* C22 witness: get_model constructed and returned a model whose path exists
\* while the credential file is missing or unreadable
C22_Witness ==
    /\ last.op = "get_model" /\ last.err = NoError
    /\ Instantiated(log, last.id.name)
    /\ last.ret.cls = last.id.name
    /\ hf_key # "present"
    /\ ModelIdOf(last.id.name) \in paths

----------------------------------------------------------------------------
(* Properties of the order of the driver *)

\* the datasets to draw, in listing order
DatasetsToDraw == SelectSeq(listing, LAMBDA f : f # "emvd")

\* the (dataset, metric) pairs in processing order: datasets outer, metrics inner
PairSeq ==
    [k \in 1..(Len(DatasetsToDraw) * Len(cfg_metrics)) |->
        FigurePath(DatasetsToDraw[((k - 1) \div Len(cfg_metrics)) + 1],
                   cfg_metrics[((k - 1) % Len(cfg_metrics)) + 1])]

\* the images written so far, in order
ImagesWritten == SelectSeq(written, LAMBDA e : e.op = "write_image")

\* C23: the images are written in the order of the pairs, datasets outer and
\* metrics inner, none skipped; when the driver fails at a pair, the figures
\* are exactly those of the pairs before it; after a failure nothing more is
\* written; and no step removes or changes a figure already written.
C23_FailStop ==
    /\ []( /\ Len(ImagesWritten) <= Len(PairSeq)
           /\ \A i \in 1..Len(ImagesWritten) : ImagesWritten[i].path = PairSeq[i]
           /\ {f.path : f \in figures} = {PairSeq[i] : i \in 1..Len(ImagesWritten)}
           /\ (drv.pc = "failed" /\ metrics_pt.exists) =>
                 /\ Len(ImagesWritten) < Len(PairSeq)
                 /\ drv.cur = PairSeq[Len(ImagesWritten) + 1] )
    /\ [][ /\ drv.pc = "failed" => (figures' = figures /\ written' = written)
           /\ \A f \in figures : f \in figures' ]_vars

\* C23 witness: the driver wrote the figures of two datasets, in order, then
\* failed at the first pair of a third; no later figure exists
C23_Witness ==
    /\ drv.pc = "failed" /\ metrics_pt.exists
    /\ Len(ImagesWritten) = 2
    /\ ImagesWritten[1].path.dataset = "songs" /\ ImagesWritten[2].path.dataset = "covers"
    /\ Cardinality(figures) = 2
    /\ drv.cur.dataset = "rock" /\ Len(PairSeq) > 2

====
